---- MODULE Spec2Model ----
(***************************************************************************)
(* Model of src/src/lib.rs: the non-blocking accept loop                   *)
(* (AsyncServer, AsyncServerRunner, OnceFuture) and the request-head       *)
(* parser parse_partial.                                                   *)
(***************************************************************************)
EXTENDS Integers, Sequences, FiniteSets, TLC

(* ------------------------------ bounds -------------------------------- *)
\* connections that ever arrive at the listener
MaxConns == 3
\* timer firings and failed accept attempts counted per waiting connection
\* (the counters stop there)
MaxWait == 2

(* --------------------------- accept loop state ------------------------ *)
VARIABLES
  server_state,   \* AsyncServerRunner.server_state (u8)
  server_exit,    \* AsyncServerRunner.server_exit
  fut,            \* AsyncServerRunner.fut: "None", or the sleep future "pending" / "fired"
  backlog,        \* AsyncServer.listener: connections queued for accept, oldest first
  nextConn,       \* number of connections that have arrived so far
  tasks,          \* OnceFuture objects handed to ensure_future, in spawn order
  out,            \* what the last call of AsyncServerRunner.__next__ returned
  lastAccept,     \* what listener.incoming().next() gave in the last call ("NotCalled" if none)
  pre,            \* the runner's fields and the listener as the last call of __next__ found them
  finished,       \* some call of AsyncServerRunner.__next__ has returned Return
  emptyAccepts,   \* the listener outcomes for which accept_client has returned None so far
  timers,         \* call_later callbacks scheduled by _sleep that have not run yet
  waitFires,      \* per queued connection: sleep timers that fired while it was queued
  waitErrs        \* per queued connection: accept attempts that failed while it was queued

srvVars == <<server_state, server_exit, fut, backlog, nextConn, tasks, out,
             lastAccept, pre, finished, emptyAccepts, timers, waitFires, waitErrs>>

(* -------------------------- parse_partial state ----------------------- *)
VARIABLES
  shape,      \* how the stream was built (what the claims are stated over)
  stream,     \* the bytes the peer has sent
  cursor,     \* bytes consumed from the stream by reader
  iter,       \* the loop variable i
  headers,    \* HashMap<String, String> as a set of <<name, value>>
  method, path, protocol,
  pc          \* "loop", "exit" (left the loop), or the outcome "Ok" / "Err" / "Panic"

parseVars == <<shape, stream, cursor, iter, headers, method, path, protocol, pc>>

None == <<>>
Some(x) == <<x>>

\* Option<TcpStream> of one accept attempt on the non-blocking listener:
\* a queued connection is returned, an empty queue gives WouldBlock, and the
\* attempt can fail with another error whatever is queued.
incoming(q) ==
  IF q = <<>> THEN {"WouldBlock", "Error"} ELSE {"Ok", "Error"}

accept_client_dropok(res, q) ==
  None

accept_client(res, q) ==
  CASE res = "Ok"         -> Some(Head(q))
    [] res = "WouldBlock" -> None
    [] OTHER              -> None

\* an accepted connection stays queued
listener_after_keep(res, q) == q

\* the listener's queue after the attempt
listener_after(res, q) ==
  IF res = "Ok" THEN Tail(q) ELSE q

AsyncServerRunner_new ==
  [server_state |-> 0, server_exit |-> FALSE, fut |-> "None"]

\* create_future + call_later(internal_clock_delay, ...) + __iter__:
\* the handle of a timer that has not fired
_sleep == "pending"

\* result of _iter_sleep: the yielded object, server_state and fut afterwards.
\* fut.__next__ of the asyncio future, resumed by an asyncio task: Ok(the
\* future) while its timer has not fired, Err(StopIteration) once it has.
_iter_sleep_spin(f, st) ==
  [ret |-> None, server_state |-> 1, fut |-> "None", started |-> FALSE]

\* the Err arm forgets to clear the handle
_iter_sleep_keeps_handle(f, st) ==
  LET f1 == IF f = "None" THEN _sleep ELSE f
  IN  IF f1 = "pending"
        THEN [ret |-> Some("fut"), server_state |-> st, fut |-> f1,
              started |-> (f = "None")]
        ELSE [ret |-> None, server_state |-> 1, fut |-> f1,
              started |-> (f = "None")]

\* a new timer is started on every call, whatever handle is held
_iter_sleep_always_new(f, st) ==
  IF f = "fired"
    THEN [ret |-> None, server_state |-> 1, fut |-> "None", started |-> FALSE]
    ELSE [ret |-> Some("fut"), server_state |-> st, fut |-> _sleep, started |-> TRUE]

\* a fired timer is re-armed instead of handing control back to polling
_iter_sleep_rearm(f, st) ==
  [ret |-> Some("fut"), server_state |-> st, fut |-> "pending",
   started |-> (f # "pending")]

\* started: _sleep was called, which schedules one call_later callback
_iter_sleep(f, st) ==
  LET f1 == IF f = "None" THEN _sleep ELSE f
  IN  IF f1 = "pending"
        THEN [ret |-> Some("fut"), server_state |-> st, fut |-> f1,
              started |-> (f = "None")]
        ELSE [ret |-> None, server_state |-> 1, fut |-> "None",
              started |-> (f = "None")]

Stream_new(c) == [internal_stream |-> Some(c)]

\* result: what the last __next__ of the task returned; wrote: the bytes its
\* connection has been sent
OnceFuture_new(s) ==
  [stream |-> s, state |-> 0, done |-> FALSE, result |-> "NotRun", wrote |-> <<>>]

\* IterNextOutput / PyResult of a call of __next__
Yield(x) == IF x = None THEN "YieldNone" ELSE "YieldFut"
Return == "Return"
Raise == "Err"

\* outcomes of asyncio.ensure_future: it returns a task ...
SpawnReliable == {TRUE}
\* ... or it may also raise, which "?" hands to the caller of __next__
SpawnAny == BOOLEAN

\* body of "if slf.server_state == 1" for a client that was returned
spawn_client(cli, spawned) ==
  IF spawned
    THEN [tasks |-> <<OnceFuture_new(Stream_new(cli[1]))>>, out |-> Yield(None)]
    ELSE [tasks |-> <<>>, out |-> Raise]

\* does the polling branch stop the server when no client was returned
should_stop_always(exit) == TRUE

should_stop_never(exit) == FALSE

should_stop(exit) == exit

\* one call of AsyncServerRunner.__next__: the new fields, the listener,
\* the tasks spawned and the value returned
next_result_exit_first(st0, exit, f, q, res, spawned) ==
  LET st == IF st0 = 0 THEN 1 ELSE st0
  IN  IF st = 1 /\ exit
        THEN [server_state |-> 1, fut |-> f, backlog |-> q,
              tasks |-> <<>>, out |-> Return, started |-> FALSE, accept |-> "NotCalled"]
        ELSE IF st = 1
          THEN LET client == accept_client(res, q)
                   q1 == listener_after(res, q)
               IN  IF client # None
                     THEN LET sp == spawn_client(client, spawned)
                          IN  [server_state |-> 1, fut |-> f, backlog |-> q1,
                               tasks |-> sp.tasks, out |-> sp.out, started |-> FALSE, accept |-> res]
                     ELSE LET sl == _iter_sleep(f, 2)
                          IN  [server_state |-> sl.server_state, fut |-> sl.fut,
                               backlog |-> q1, tasks |-> <<>>,
                               out |-> Yield(sl.ret), started |-> sl.started, accept |-> res]
          ELSE LET sl == _iter_sleep(f, 2)
               IN  [server_state |-> sl.server_state, fut |-> sl.fut, backlog |-> q,
                    tasks |-> <<>>, out |-> Yield(sl.ret), started |-> sl.started, accept |-> "NotCalled"]

next_result(st0, exit, f, q, res, spawned) ==
  LET st == IF st0 = 0 THEN 1 ELSE st0
  IN  IF st = 1
        THEN LET client == accept_client(res, q)
                 q1 == listener_after(res, q)
             IN  IF client # None
                   THEN LET sp == spawn_client(client, spawned)
                        IN  [server_state |-> 1, fut |-> f, backlog |-> q1,
                             tasks |-> sp.tasks, out |-> sp.out, started |-> FALSE, accept |-> res]
                   ELSE IF should_stop(exit)
                     THEN [server_state |-> 1, fut |-> f, backlog |-> q1,
                           tasks |-> <<>>, out |-> Return, started |-> FALSE, accept |-> res]
                     ELSE LET sl == _iter_sleep(f, 2)
                          IN  [server_state |-> sl.server_state, fut |-> sl.fut,
                               backlog |-> q1, tasks |-> <<>>,
                               out |-> Yield(sl.ret), started |-> sl.started, accept |-> res]
        ELSE IF st = 2
          THEN LET sl == _iter_sleep(f, 2)
               IN  [server_state |-> sl.server_state, fut |-> sl.fut, backlog |-> q,
                    tasks |-> <<>>, out |-> Yield(sl.ret), started |-> sl.started, accept |-> "NotCalled"]
          ELSE [server_state |-> st, fut |-> f, backlog |-> q,
                tasks |-> <<>>, out |-> Return, started |-> FALSE, accept |-> "NotCalled"]

SrvInit ==
  /\ server_state = AsyncServerRunner_new.server_state
  /\ server_exit = AsyncServerRunner_new.server_exit
  /\ fut = AsyncServerRunner_new.fut
  /\ backlog = <<>>
  /\ nextConn = 0
  /\ tasks = <<>>
  /\ out = "NoCall"
  /\ lastAccept = "NotCalled"
  /\ pre = [server_state |-> 0, server_exit |-> FALSE, fut |-> "None",
            backlog |-> <<>>, ntasks |-> 0]
  /\ finished = FALSE
  /\ emptyAccepts = {}
  /\ timers = 0
  /\ waitFires = [c \in 1..MaxConns |-> 0]
  /\ waitErrs = [c \in 1..MaxConns |-> 0]

\* one more event counted for every connection queued in q
Bump(cnt, q) ==
  [c \in 1..MaxConns |->
     IF (\E k \in 1..Len(q) : q[k] = c) /\ cnt[c] < MaxWait THEN cnt[c] + 1 ELSE cnt[c]]

\* the event loop calls AsyncServerRunner.__next__
Poll(spawnSet) ==
  \E res \in incoming(backlog), spawned \in spawnSet :
    LET r == next_result(server_state, server_exit, fut, backlog, res, spawned)
    IN  /\ server_state' = r.server_state
        /\ fut' = r.fut
        /\ backlog' = r.backlog
        /\ tasks' = tasks \o r.tasks
        /\ out' = r.out
        /\ lastAccept' = r.accept
        /\ pre' = [server_state |-> server_state, server_exit |-> server_exit,
                   fut |-> fut, backlog |-> backlog, ntasks |-> Len(tasks)]
        /\ finished' = (finished \/ r.out = Return)
        /\ emptyAccepts' = IF r.accept \in {"WouldBlock", "Error"}
                             THEN emptyAccepts \cup {r.accept} ELSE emptyAccepts
        /\ timers' = IF r.started THEN timers + 1 ELSE timers
        /\ waitFires' = IF r.accept = "Ok"
                          THEN [waitFires EXCEPT ![Head(backlog)] = 0] ELSE waitFires
        /\ waitErrs' = IF r.accept = "Ok"
                         THEN [waitErrs EXCEPT ![Head(backlog)] = 0]
                         ELSE IF r.accept = "Error" THEN Bump(waitErrs, backlog)
                         ELSE waitErrs
        /\ UNCHANGED <<server_exit, nextConn>>
        /\ UNCHANGED parseVars

\* a client connects: the kernel queues it on the listener
Arrive ==
  /\ nextConn < MaxConns
  /\ nextConn' = nextConn + 1
  /\ backlog' = Append(backlog, nextConn + 1)
  /\ UNCHANGED <<server_state, server_exit, fut, tasks, out, lastAccept, pre,
                 finished, emptyAccepts, timers, waitFires, waitErrs>>
  /\ UNCHANGED parseVars

\* loop.call_later runs _set_result_unless_cancelled on the sleep future
TimerFire ==
  /\ fut = "pending"
  /\ fut' = "fired"
  /\ timers' = timers - 1
  /\ waitFires' = Bump(waitFires, backlog)
  /\ UNCHANGED <<server_state, server_exit, backlog, nextConn, tasks, out,
                 lastAccept, pre, finished, emptyAccepts, waitErrs>>
  /\ UNCHANGED parseVars

\* the shutdown signal: server_exit is set
Shutdown ==
  /\ ~server_exit
  /\ server_exit' = TRUE
  /\ UNCHANGED <<server_state, fut, backlog, nextConn, tasks, out, lastAccept,
                 pre, finished, emptyAccepts, timers, waitFires, waitErrs>>
  /\ UNCHANGED parseVars

\* b"HTTP/1.1 200 OK\r\n\r\n"
Response ==
  <<72, 84, 84, 80, 47, 49, 46, 49, 32, 50, 48, 48, 32, 79, 75, 13, 10, 13, 10>>

\* write_all on the task's own non-blocking stream: the whole response is
\* sent, or the write fails after none or a part of it
WriteOutcomes == {SubSeq(Response, 1, k) : k \in {0, 9, Len(Response)}}

\* a step that yields instead of returning, so that the task is resumed again
OnceFuture_next_yields(t, w) ==
  [t EXCEPT !.result = "YieldNone", !.wrote = t.wrote \o w,
            !.done = (Len(t.wrote) > Len(Response))]

OnceFuture_next(t, w) ==
  [t EXCEPT !.done = TRUE, !.result = Return, !.wrote = t.wrote \o w]

\* a task step whose failed write stops the server
TaskStep_stops_server ==
  \E i \in 1..Len(tasks), w \in WriteOutcomes :
    /\ ~tasks[i].done
    /\ tasks' = [tasks EXCEPT ![i] = OnceFuture_next(tasks[i], w)]
    /\ server_exit' = (server_exit \/ w # Response)
    /\ UNCHANGED <<server_state, fut, backlog, nextConn, out,
                   lastAccept, pre, finished, emptyAccepts, timers, waitFires,
                   waitErrs>>
    /\ UNCHANGED parseVars

\* the event loop resumes a spawned task: OnceFuture.__next__
TaskStep ==
  \E i \in 1..Len(tasks), w \in WriteOutcomes :
    /\ ~tasks[i].done
    /\ tasks' = [tasks EXCEPT ![i] = OnceFuture_next(tasks[i], w)]
    /\ UNCHANGED <<server_state, server_exit, fut, backlog, nextConn, out,
                   lastAccept, pre, finished, emptyAccepts, timers, waitFires,
                   waitErrs>>
    /\ UNCHANGED parseVars

(* ------------------------- parse_partial: bytes ------------------------ *)
\* bytes are 0..255; a String is the sequence of its code points
MAX_HEADER_COUNT == 32

Min(S) == CHOOSE x \in S : \A y \in S : x <= y

\* reader.read_until(b'\n', &mut buff) at offset pos: the bytes up to and
\* including the next LF, or up to the end of the stream
read_until(s, pos) ==
  LET lfs == {j \in (pos + 1)..Len(s) : s[j] = 10}
      stop == IF lfs = {} THEN Len(s) ELSE Min(lfs)
  IN  SubSeq(s, pos + 1, stop)

\* buff.split_off(if n >= 2 {n-2} else {0}): what stays in buff
split_off(buff, n) ==
  SubSeq(buff, 1, IF n >= 2 THEN n - 2 ELSE 0)

\* the test that ends the loop
is_blank_never(buff) == FALSE

is_blank(buff) == buff = <<>>

\* offset of the first occurrence of sep in b, 0 if there is none
find_str(b, sep) ==
  LET hits == {k \in 1..(Len(b) - Len(sep) + 1) :
                 SubSeq(b, k, k + Len(sep) - 1) = sep}
  IN  IF hits = {} THEN 0 ELSE Min(hits)

\* bstr splitn_str(2, sep): at most two pieces, cut at the first sep
splitn_str_last(b, sep) ==
  LET hits == {k \in 1..(Len(b) - Len(sep) + 1) :
                 SubSeq(b, k, k + Len(sep) - 1) = sep}
      k == IF hits = {} THEN 0 ELSE CHOOSE x \in hits : \A y \in hits : x >= y
  IN  IF k = 0 THEN <<b>>
      ELSE <<SubSeq(b, 1, k - 1), SubSeq(b, k + Len(sep), Len(b))>>

splitn_str(b, sep) ==
  LET k == find_str(b, sep)
  IN  IF k = 0 THEN <<b>>
      ELSE <<SubSeq(b, 1, k - 1), SubSeq(b, k + Len(sep), Len(b))>>

\* bstr split_str(sep): every piece between occurrences of sep
RECURSIVE split_str(_, _)
split_str(b, sep) ==
  LET k == find_str(b, sep)
  IN  IF k = 0 THEN <<b>>
      ELSE <<SubSeq(b, 1, k - 1)>> \o split_str(SubSeq(b, k + Len(sep), Len(b)), sep)

\* ASCII white space; the inputs hold no multi-byte white space
IsWhitespace(c) == c \in {9, 10, 11, 12, 13, 32}

RECURSIVE trim_start(_)
trim_start(b) ==
  IF b # <<>> /\ IsWhitespace(b[1]) THEN trim_start(Tail(b)) ELSE b

\* bytes that occur in no UTF-8 text; every other byte of the inputs is ASCII
NeverUtf8 == {192, 193} \cup (245..255)

\* String::from_utf8: Err on invalid bytes
from_utf8(b) ==
  IF \E k \in 1..Len(b) : b[k] \in NeverUtf8
    THEN [ok |-> FALSE, s |-> <<>>]
    ELSE [ok |-> TRUE, s |-> b]

\* String::from_utf8_lossy: an invalid byte becomes U+FFFD
from_utf8_lossy(b) ==
  [k \in 1..Len(b) |-> IF b[k] \in NeverUtf8 THEN 65533 ELSE b[k]]

\* headers.insert(name, value)
insert(h, name, value) ==
  {e \in h : e[1] # name} \cup {<<name, value>>}

\* the "if i != 0" branch: outcome and the new header mapping
parse_header(buff, h) ==
  LET it == splitn_str(buff, <<58, 32>>)
      name == from_utf8(it[1])
  IN  IF ~name.ok THEN [pc |-> "Err", headers |-> h]
      ELSE IF Len(it) < 2 THEN [pc |-> "Panic", headers |-> h]
      ELSE LET value == from_utf8(trim_start(it[2]))
           IN  IF ~value.ok THEN [pc |-> "Err", headers |-> h]
               ELSE [pc |-> "loop", headers |-> insert(h, name.s, value.s)]

\* the else branch (i == 0): three items.next().unwrap()
parse_request_line(buff) ==
  LET items == split_str(buff, <<32>>)
  IN  IF Len(items) < 3
        THEN [pc |-> "Panic", method |-> <<>>, path |-> <<>>, protocol |-> <<>>]
        ELSE [pc |-> "loop", method |-> from_utf8_lossy(items[1]),
              path |-> from_utf8_lossy(items[2]),
              protocol |-> from_utf8_lossy(items[3])]

(* ------------------------- parse_partial: inputs ----------------------- *)
\* header lines after the first line that a stream may hold besides its
\* generated ones
MaxHdrLines == 2

\* request lines: the bytes, the number of space-separated tokens, the tokens
ReqVocab ==
  { [kind |-> "wf3", line |-> <<71, 32, 47, 102, 32, 72>>, ntok |-> 3,   \* "G /f H"
     tokens |-> <<(<<71>>), <<47, 102>>, <<72>>>>],
    [kind |-> "short", line |-> <<71, 32, 47, 102>>, ntok |-> 2,          \* "G /f"
     tokens |-> <<(<<71>>), <<47, 102>>>>],
    [kind |-> "short", line |-> <<71>>, ntok |-> 1,                       \* "G"
     tokens |-> <<(<<71>>)>>],
    [kind |-> "long", line |-> <<71, 32, 47, 102, 32, 72, 32, 120>>, ntok |-> 4,  \* "G /f H x"
     tokens |-> <<(<<71>>), <<47, 102>>, <<72>>, <<120>>>>],
    [kind |-> "nonutf8", line |-> <<255, 32, 47, 102, 32, 72>>, ntok |-> 3,
     tokens |-> <<(<<255>>), <<47, 102>>, <<72>>>>],
    [kind |-> "empty", line |-> <<>>, ntok |-> 0, tokens |-> <<>>] }

\* header lines: the bytes, and for a well-formed line its name and the value
\* expected for it
HdrVocab ==
  { [kind |-> "wf", line |-> <<65, 58, 32, 98>>,                  \* "A: b"
     name |-> <<65>>, val |-> <<98>>],
    [kind |-> "wf", line |-> <<66, 58, 32, 32, 99>>,              \* "B:  c"
     name |-> <<66>>, val |-> <<99>>],
    [kind |-> "wf", line |-> <<67, 58, 32, 100, 58, 32, 101>>,    \* "C: d: e"
     name |-> <<67>>, val |-> <<100, 58, 32, 101>>],
    [kind |-> "wf", line |-> <<65, 58, 32, 122>>,                 \* "A: z"
     name |-> <<65>>, val |-> <<122>>],
    [kind |-> "nosep", line |-> <<65, 98>>,                       \* "Ab"
     name |-> <<>>, val |-> <<>>],
    [kind |-> "nosep", line |-> <<65, 58, 98>>,                   \* "A:b"
     name |-> <<>>, val |-> <<>>],
    [kind |-> "nonutf8", line |-> <<68, 58, 32, 255>>,            \* "D: \xFF"
     name |-> <<>>, val |-> <<>>] }

\* what may follow the blank line on the wire
TailVocab ==
  { [kind |-> "wf", line |-> <<84, 58, 32, 116>>,                 \* "T: t"
     name |-> <<84>>, val |-> <<116>>],
    [kind |-> "nosep", line |-> <<84, 116>>,                      \* "Tt"
     name |-> <<>>, val |-> <<>>] }

\* the j-th generated header line, "<name j>: v" with a name of its own
GenHdr(j) ==
  [kind |-> "wf", line |-> <<85 + j, 58, 32, 118>>, name |-> <<85 + j>>,
   val |-> <<118>>]

SeqsUpTo(S, n) == UNION {[1..k -> S] : k \in 0..n}

Terminators == {<<13, 10>>, <<10>>}

WfReq == CHOOSE r \in ReqVocab : r.kind = "wf3"

\* a stream: request line, header lines, perhaps a blank line and lines after
\* it; the last line may lack its terminator; the read after the last byte
\* gives 0 bytes (the peer closed) or fails (nothing more has arrived)
ShortShapes ==
  [req : ReqVocab, hdrs : SeqsUpTo(HdrVocab, MaxHdrLines), blank : BOOLEAN,
   tail : SeqsUpTo(TailVocab, 1), eol : Terminators, cut : BOOLEAN,
   end : {"Eof", "IoError"}]

\* streams around the ceiling: generated header lines with distinct names,
\* then what a short stream holds
LongCounts == (MAX_HEADER_COUNT - 3)..(MAX_HEADER_COUNT + 1)

LongShapes ==
  { [req |-> WfReq, hdrs |-> [j \in 1..k |-> GenHdr(j)] \o extra,
     blank |-> bl, tail |-> tl, eol |-> <<13, 10>>, cut |-> FALSE, end |-> en] :
      k \in LongCounts, extra \in SeqsUpTo({h \in HdrVocab : h.name # <<65>>}, 1),
      bl \in BOOLEAN, tl \in SeqsUpTo(TailVocab, 1), en \in {"Eof", "IoError"} }

Shapes == ShortShapes \cup LongShapes

RECURSIVE Flatten(_)
Flatten(ls) == IF ls = <<>> THEN <<>> ELSE Head(ls) \o Flatten(Tail(ls))

\* the lines of a shape in wire order
LinesOf(sh) ==
  <<sh.req.line>> \o [j \in 1..Len(sh.hdrs) |-> sh.hdrs[j].line]
    \o (IF sh.blank THEN <<(<<>>)>> ELSE <<>>)
    \o [j \in 1..Len(sh.tail) |-> sh.tail[j].line]

\* the bytes on the wire
Encode(sh) ==
  LET ls == LinesOf(sh)
      all == Flatten([j \in 1..Len(ls) |-> ls[j] \o sh.eol])
  IN  IF sh.cut THEN SubSeq(all, 1, Len(all) - Len(sh.eol)) ELSE all

(* ------------------------- parse_partial: steps ------------------------ *)
\* no call of parse_partial in progress
ParseIdle ==
  /\ shape = <<>> /\ stream = <<>> /\ cursor = 0 /\ iter = 0 /\ headers = {}
  /\ method = <<>> /\ path = <<>> /\ protocol = <<>> /\ pc = "idle"

\* parse_partial is called on a stream: the locals before the loop
ParseInit ==
  /\ shape \in Shapes
  /\ stream = Encode(shape)
  /\ cursor = 0 /\ iter = 0 /\ headers = {}
  /\ method = <<>> /\ path = <<>> /\ protocol = <<>>
  /\ pc = "loop"

\* one iteration of "for i in 0..MAX_HEADER_COUNT"
ParseLine ==
  /\ pc = "loop" /\ iter < MAX_HEADER_COUNT
  /\ LET raw == read_until(stream, cursor)
         n == Len(raw)
         buff == split_off(raw, n)
     IN  IF (n = 0 \/ raw[n] # 10) /\ shape.end = "IoError"
           THEN /\ pc' = "Err" /\ cursor' = cursor + n
                /\ UNCHANGED <<iter, headers, method, path, protocol>>
         ELSE IF is_blank(buff)
           THEN /\ pc' = "exit" /\ cursor' = cursor + n
                /\ UNCHANGED <<iter, headers, method, path, protocol>>
         ELSE IF iter # 0
           THEN LET r == parse_header(buff, headers)
                IN  /\ pc' = r.pc /\ headers' = r.headers
                    /\ cursor' = cursor + n
                    /\ iter' = IF r.pc = "loop" THEN iter + 1 ELSE iter
                    /\ UNCHANGED <<method, path, protocol>>
         ELSE LET r == parse_request_line(buff)
              IN  /\ pc' = r.pc /\ method' = r.method /\ path' = r.path
                  /\ protocol' = r.protocol
                  /\ cursor' = cursor + n
                  /\ iter' = IF r.pc = "loop" THEN iter + 1 ELSE iter
                  /\ UNCHANGED headers
  /\ UNCHANGED <<shape, stream>>
  /\ UNCHANGED srvVars

\* Ok((method, path, protocol, headers)) after the loop
ParseReturn ==
  /\ \/ pc = "exit"
     \/ pc = "loop" /\ iter = MAX_HEADER_COUNT
  /\ pc' = "Ok"
  /\ UNCHANGED <<shape, stream, cursor, iter, headers, method, path, protocol>>
  /\ UNCHANGED srvVars

vars == <<srvVars, parseVars>>

Init == SrvInit /\ ParseIdle

Next ==
  \/ Poll(SpawnReliable)
  \/ Arrive
  \/ TimerFire
  \/ Shutdown
  \/ TaskStep

Spec == Init /\ [][Next]_vars

\* the event loop resumes the runner after every report and the timer fires;
\* an accept attempt on a non-empty queue does not fail forever
AcceptSucceeds == Poll(SpawnReliable) /\ lastAccept' = "Ok"

LiveSpec ==
  /\ Init /\ [][Next]_vars
  /\ WF_vars(Poll(SpawnReliable))
  /\ WF_vars(TimerFire)
  /\ SF_vars(AcceptSucceeds)

\* LiveSpec, and the event loop also resumes every task it was given
FairSpec ==
  /\ Init /\ [][Next]_vars
  /\ WF_vars(Poll(SpawnReliable))
  /\ WF_vars(TimerFire)
  /\ SF_vars(AcceptSucceeds)
  /\ WF_vars(TaskStep)

\* the same program when asyncio.ensure_future may raise
NextFaults ==
  \/ Poll(SpawnAny)
  \/ Arrive
  \/ TimerFire
  \/ Shutdown
  \/ TaskStep

SpecFaults == Init /\ [][NextFaults]_vars

\* parse_partial applied to one stream
ParseNext ==
  \/ ParseLine
  \/ ParseReturn

\* a call of parse_partial, the accept loop not started
ParseStart == SrvInit /\ ParseInit

ParseSpec == ParseStart /\ [][ParseNext]_vars

(* ------------------------------ claims -------------------------------- *)
Range(q) == {q[i] : i \in 1..Len(q)}
Spawned == {tasks[i].stream.internal_stream[1] : i \in 1..Len(tasks)}
EnteredPolling == pre.server_state \in {0, 1}
\* every connection that has arrived was handed to a task
AllSpawned == \A c \in 1..nextConn : c \in Spawned
\* every task spawned so far has run to completion
AllDone == \A i \in 1..Len(tasks) : tasks[i].done

\* C1: once a call of __next__ has returned Return, the last call made has
\* returned Return too (every later poll reports "finished")
C1_FinishedIsTerminal ==
  finished => out = Return

C3_NoBusySpin ==
  (nextConn = 0 /\ ~server_exit /\ out # "NoCall") =>
    /\ EnteredPolling
          => (server_state = 2 /\ out = "YieldFut" /\ fut \in {"pending", "fired"})
    /\ (pre.server_state = 2 /\ pre.fut = "pending")
          => (server_state = 2 /\ out = "YieldFut" /\ lastAccept = "NotCalled")
    /\ (pre.server_state = 2 /\ pre.fut = "fired")
          => (server_state = 1 /\ out = "YieldNone" /\ lastAccept = "NotCalled"
              /\ fut = "None")
    /\ server_state = 1 => (pre.server_state = 2 /\ pre.fut = "fired")

C3_Witness ==
  /\ nextConn = 0 /\ ~server_exit
  /\ pre.server_state = 2 /\ pre.fut = "fired"
  /\ server_state = 1 /\ out = "YieldNone"

\* C4: a poll whose accept attempt gave nothing (would-block or another
\* error) with shutdown not set returns neither Return nor an error, and
\* after such an attempt every connection that has arrived and is still
\* queued is later handed to a task, unless shutdown is set
C4_AcceptFailureNotFatal ==
  /\ [](( lastAccept \in {"WouldBlock", "Error"} /\ ~pre.server_exit)
          => (out \in {"YieldNone", "YieldFut"} /\ server_state \in {1, 2}))
  /\ (emptyAccepts # {} /\ ~AllSpawned) ~> (AllSpawned \/ server_exit)

C4_Witness ==
  /\ emptyAccepts = {"WouldBlock", "Error"}
  /\ ~server_exit
  /\ lastAccept = "Ok"
  /\ Len(tasks) = pre.ntasks + 1

Done == pc \in {"Ok", "Err", "Panic"}
NHdrs == Len(shape.hdrs)
CRLF == <<13, 10>>
\* every line of the stream up to and including the blank line ends with CRLF
Terminated == shape.eol = CRLF /\ (~shape.cut \/ shape.tail # <<>>)
AllWf(hs) == \A j \in 1..Len(hs) : hs[j].kind = "wf"
DistinctNames(hs) == \A j, m \in 1..Len(hs) : hs[j].name = hs[m].name => j = m
\* the entries a sequence of well-formed header lines stands for (a later
\* line replaces an earlier one of the same name)
EntriesOf(hs) ==
  {<<hs[j].name, hs[j].val>> : j \in {m \in 1..Len(hs) :
      \A l \in (m + 1)..Len(hs) : hs[l].name # hs[m].name}}

\* C6: a stream of 33 or more non-empty, well-formed, CRLF-terminated lines
\* with no blank line ends in a parse error
C6_CeilingRejected ==
  (Done /\ shape.eol = CRLF /\ ~shape.cut /\ ~shape.blank
        /\ shape.req.kind = "wf3" /\ AllWf(shape.hdrs)
        /\ 1 + NHdrs > MAX_HEADER_COUNT)
    => pc = "Err"

\* C7: a non-empty first line that does not have exactly three
\* space-separated tokens ends in a parse error (an error value)
C7_BadRequestLineIsError ==
  (Done /\ shape.eol = CRLF /\ ~shape.cut
        /\ shape.req.kind # "empty" /\ shape.req.ntok # 3)
    => pc = "Err"

\* C8: a consumed non-empty header line without ": " ends in a parse error
\* (an error value) and leaves no header entry
C8_HeaderWithoutSeparatorIsError ==
  (Done /\ shape.eol = CRLF /\ ~shape.cut /\ shape.req.kind = "wf3"
        /\ \E j \in 1..NHdrs :
             /\ j < MAX_HEADER_COUNT
             /\ shape.hdrs[j].kind = "nosep"
             /\ AllWf(SubSeq(shape.hdrs, 1, j - 1)))
    => pc = "Err"

\* C9: a well-formed head (three tokens, k <= 30 header lines "Name: Value"
\* with distinct names, CRLF line ends, then an empty line) gives Ok with the
\* three tokens in order and exactly the k entries name -> value, the value
\* being what follows the first ": " without leading white space
WellFormed(sh) ==
  /\ sh.req.kind = "wf3"
  /\ AllWf(sh.hdrs) /\ DistinctNames(sh.hdrs)
  /\ Len(sh.hdrs) <= MAX_HEADER_COUNT - 2
  /\ sh.blank /\ sh.eol = CRLF /\ (~sh.cut \/ sh.tail # <<>>)

C9_RoundTrip ==
  (Done /\ WellFormed(shape)) =>
    /\ pc = "Ok"
    /\ method = shape.req.tokens[1]
    /\ path = shape.req.tokens[2]
    /\ protocol = shape.req.tokens[3]
    /\ headers = {<<shape.hdrs[j].name, shape.hdrs[j].val>> : j \in 1..NHdrs}
    /\ Cardinality(headers) = NHdrs

C9_Witness ==
  /\ pc = "Ok" /\ WellFormed(shape)
  /\ NHdrs = MAX_HEADER_COUNT - 2
  /\ <<(<<67>>), <<100, 58, 32, 101>>>> \in headers

\* C10: with an empty line before the ceiling, parse_partial returns after
\* consuming that line and nothing behind it: the loop has run once per
\* line before the empty one, the header names are names of lines before it,
\* and method, path and protocol are the first three tokens of the first line
C10_StopsAtEmptyLine ==
  /\ (Done /\ Terminated /\ shape.blank /\ shape.req.ntok >= 3
           /\ AllWf(shape.hdrs) /\ 1 + NHdrs < MAX_HEADER_COUNT)
       => /\ pc = "Ok"
          /\ cursor = Len(Encode([shape EXCEPT !.tail = <<>>, !.cut = FALSE]))
          /\ iter = 1 + NHdrs
          /\ headers = EntriesOf(shape.hdrs)
          /\ method = from_utf8_lossy(shape.req.tokens[1])
          /\ path = from_utf8_lossy(shape.req.tokens[2])
          /\ protocol = from_utf8_lossy(shape.req.tokens[3])
  /\ (Done /\ Terminated /\ shape.req.kind = "empty")
       => /\ pc = "Ok"
          /\ cursor = Len(shape.eol) /\ iter = 0
          /\ headers = {} /\ method = <<>> /\ path = <<>> /\ protocol = <<>>

C10_Witness ==
  /\ pc = "Ok" /\ Terminated /\ shape.blank /\ shape.tail # <<>>
  /\ shape.req.kind = "wf3" /\ NHdrs >= 1
  /\ cursor < Len(stream)

\* C11 as stated: a head that is well formed but for its bare-LF line ends
\* parses to the same result as the head written with CRLF
WellFormedBareLf(sh) ==
  /\ sh.eol = <<10>>
  /\ WellFormed([sh EXCEPT !.eol = CRLF])

C11_BareLfSameAsCrlf ==
  (Done /\ WellFormedBareLf(shape)) =>
    /\ pc = "Ok"
    /\ method = shape.req.tokens[1]
    /\ path = shape.req.tokens[2]
    /\ protocol = shape.req.tokens[3]
    /\ headers = {<<shape.hdrs[j].name, shape.hdrs[j].val>> : j \in 1..NHdrs}

\* C12 as stated: below the ceiling, Ok is returned only for a stream with a
\* non-empty first line whose header block ends with a terminated empty line
C12_OkOnlyFromCompleteBlock ==
  (pc = "Ok" /\ shape.eol = CRLF /\ 1 + NHdrs < MAX_HEADER_COUNT) =>
    /\ shape.req.kind # "empty"
    /\ shape.blank
    /\ (~shape.cut \/ shape.tail # <<>>)

(* ---------------------- claims on the accept loop ---------------------- *)
\* C13 as stated: whatever fails (an accept attempt, ensure_future, a task),
\* no call of __next__ returns an error, and none returns Return unless it
\* found server_exit set
C13_NoFailureIsFatal ==
  /\ out # Raise
  /\ out = Return => pre.server_exit

IsTaskStep == Len(tasks') = Len(tasks) /\ tasks' # tasks

\* C14: a step of a connection task changes that task only: the runner's
\* fields, the listener and every other task stay as they were, whether the
\* write succeeded or not; and every task spawned is run to completion
C14_TaskStepIsolated ==
  /\ [][IsTaskStep =>
          /\ UNCHANGED <<server_state, server_exit, fut, timers, backlog, nextConn>>
          /\ \E i \in 1..Len(tasks) :
               /\ ~tasks[i].done /\ tasks'[i].done
               /\ tasks'[i].stream = tasks[i].stream
               /\ \A k \in 1..Len(tasks) : k # i => tasks'[k] = tasks[k]]_vars
  /\ ~AllDone ~> AllDone

C14_Witness ==
  /\ Len(tasks) >= 2
  /\ tasks[2].done /\ tasks[2].wrote # Response
  /\ ~tasks[1].done
  /\ ~server_exit

\* C15 as stated: no queued connection sees the sleep timer fire more than
\* once before it is accepted
C15_AcceptedWithinOneInterval ==
  \A c \in Range(backlog) : waitFires[c] <= 1

\* C15 amended: a queued connection sees the sleep timer fire at most once
\* more than the number of accept attempts that failed while it was queued
C15_OneIntervalPerFailedAccept ==
  \A c \in Range(backlog) : waitFires[c] <= 1 + waitErrs[c]

C15_Witness ==
  \E c \in Range(backlog) :
    /\ waitFires[c] = 1 /\ waitErrs[c] = 0
    /\ server_state = 1 /\ pre.server_state = 2 /\ pre.fut = "fired"

\* C16: at most one sleep timer is outstanding, and exactly when the handle
\* held is that of a timer that has not fired; a call of __next__ starts a
\* timer only if it found no handle; it clears the handle exactly when it
\* found a fired timer in state 2; and a call that enters state 2 from the
\* polling state found no handle and leaves a fresh one
C16_OneTimerOutstanding ==
  /\ timers \in {0, 1}
  /\ (timers = 1) <=> (fut = "pending")
  /\ out # "NoCall" =>
       /\ (pre.fut = "pending") => fut \in {"pending", "fired"}
       /\ (pre.fut = "fired") => (pre.server_state = 2 /\ fut = "None")
       /\ (pre.fut = "None" /\ fut = "None") => server_state = 1
       /\ (EnteredPolling /\ server_state = 2)
            => (pre.fut = "None" /\ fut \in {"pending", "fired"})

\* a second entry into state 2: with no connection and no shutdown the
\* polling state is reached again only after a first timer has fired
C16_Witness ==
  /\ pre.server_state = 1 /\ server_state = 2 /\ fut = "pending" /\ timers = 1
  /\ nextConn = 0 /\ ~server_exit

\* C17 as stated: a task that has been resumed has returned Return and its
\* connection has been sent the response bytes, once; a task not resumed
\* yet has sent nothing
C17_OneResponseWritten ==
  \A i \in 1..Len(tasks) :
    /\ tasks[i].done => (tasks[i].result = Return /\ tasks[i].wrote = Response)
    /\ ~tasks[i].done => (tasks[i].result = "NotRun" /\ tasks[i].wrote = <<>>)

\* C17 amended: a task that has been resumed has returned Return after one
\* write_all of the response: its connection has been sent the response
\* once or, the write having failed, a proper part of it
IsPrefix(a, b) == Len(a) <= Len(b) /\ a = SubSeq(b, 1, Len(a))

C17_OneWriteAttempt ==
  \A i \in 1..Len(tasks) :
    /\ tasks[i].result \in {"NotRun", Return}
    /\ tasks[i].done <=> tasks[i].result = Return
    /\ tasks[i].done => IsPrefix(tasks[i].wrote, Response)
    /\ ~tasks[i].done => tasks[i].wrote = <<>>

C17_Witness ==
  /\ Len(tasks) >= 2
  /\ tasks[1].done /\ tasks[1].wrote = Response
  /\ tasks[2].done /\ tasks[2].wrote # Response

C19_ShutdownEventuallyFinishes ==
  /\ server_exit ~> (finished /\ AllDone)
  /\ [][/\ Len(tasks') >= Len(tasks)
        /\ \A i \in 1..Len(tasks) : tasks'[i].stream = tasks[i].stream]_vars

C19_Witness ==
  /\ finished /\ out = Return
  /\ Len(tasks) >= 2
  /\ ~tasks[1].done /\ tasks[2].done
  /\ pre.server_exit /\ lastAccept = "WouldBlock"

\* C20: server_state is 0, 1 or 2, and 0 exactly until the first call of
\* __next__; the first call makes an accept attempt and leaves state 1 or 2;
\* no call returns through the final "invalid state" Return (a Return comes
\* with an accept attempt of the same call); and a timer handle is held only
\* in state 2
C20_StateIsValid ==
  /\ server_state \in {0, 1, 2}
  /\ (server_state = 0) <=> (out = "NoCall")
  /\ (out # "NoCall" /\ pre.server_state = 0)
       => (lastAccept # "NotCalled" /\ server_state \in {1, 2})
  /\ out = Return => (lastAccept # "NotCalled" /\ pre.server_state \in {0, 1})
  /\ fut # "None" => server_state = 2

C20_Witness ==
  /\ pre.server_state = 2 /\ pre.fut = "fired"
  /\ server_state = 1 /\ fut = "None"
  /\ Len(tasks) >= 1

====
